---- MODULE Spec2Model ----
(***************************************************************************)
(* Package Scripts Hover (oinochoe/vscode-package-scripts-hover).          *)
(*                                                                         *)
(* Strings are sequences of tokens.  A token is a punctuation character    *)
(* or a word of letters and digits; the two regular expressions of         *)
(* provideHover are evaluated token by token over the text of a line.      *)
(* JavaScript values are tagged records; an object is a function from      *)
(* keys (strings) to values, read through Get, which also consults         *)
(* Object.prototype as a property access of the language does.             *)
(***************************************************************************)
EXTENDS Integers, Sequences, FiniteSets, TLC

VARIABLES
    variant,        \* which provider is installed: "legacy" | "nested"
    document,       \* the open package.json document
    file,           \* .vscode/script-docs.json on disk
    workspace,      \* package.json files of the workspace: path -> content
    workspaceFolders, \* vscode.workspace.workspaceFolders.length
    cachedDocs,     \* PackageJsonHoverProvider.cachedDocs
    pc,             \* per hover request: where provideHover is suspended
    loc,            \* per hover request: its local variables
    hover,          \* what the latest provideHover to return returned
    writes,         \* number of writeFile calls on the documentation file
    reads,          \* number of readFile calls on the documentation file
    cmd,            \* the running updateScriptDocsForWorkspace: position, locals
    message,        \* the latest message the update command showed
    runs,           \* number of times the update command was invoked
    now,            \* the clock of the extension host, in milliseconds
    timers,         \* the timers setTimeout has armed and not yet run
    timeout,        \* debounce: the handle of its pending timer, or null
    events,         \* number of watcher events delivered, the last handle
    lastEvent,      \* the time of the latest watcher event
    bursts,         \* number of bursts of watcher events begun
    clears,         \* number of runs of the debounced callback
    active,         \* activate has run
    hoverProvider,  \* extension.ts hoverProvider: a registration, or undefined
    registrations,  \* the hover-provider registrations that are live in the host
    deactivated,    \* deactivate has run
    config,         \* the settings packageScriptsHover.*
    customFile,     \* the file at the path the setting customDocsPath names
    reloads         \* number of runs of the reload command

loadVars ==
    <<variant, document, file, workspace, workspaceFolders, cachedDocs, pc, loc,
      hover, writes, reads>>

updateVars == <<cmd, message, runs>>

watchVars == <<now, timers, timeout, events, lastEvent, bursts, clears>>

hostVars ==
    <<active, hoverProvider, registrations, deactivated, config, customFile,
      reloads>>

vars == <<loadVars, updateVars, watchVars, hostVars>>

(***************************************************************************)
(* Bounds of the model.                                                    *)
(***************************************************************************)
NumTasks == 2
MaxReads == 3
MaxScripts == 2
MaxDeps == 1
MaxRuns == 2
MaxEvents == 4
MaxTime == 2000
MaxReloads == 2

Tasks == 1..NumTasks

(***************************************************************************)
(* Strings.                                                                *)
(***************************************************************************)
Q == "\""

AlnumWords ==
    {"test", "dev", "build", "lint", "fix", "constructor", "jest", "tsc",
     "pkg", "name", "scripts", "dependencies", "packages", "a", "node_modules",
     "x", "y", "old", "1"}

Whitespace == {" "}

n_test == <<"test">>
n_dev == <<"dev">>
n_build == <<"build">>
n_lint_fix == <<"lint", ".", "fix">>
n_constructor == <<"constructor">>
n_scripts == <<"scripts">>
n_dependencies == <<"dependencies">>
n_name == <<"name">>

c_jest == <<"jest">>
c_tsc == <<"tsc">>
c_empty == <<>>

p_root == <<"package.json">>
p_a == <<"packages", "/", "a", "/", "package.json">>
p_nm == <<"node_modules", "/", "x", "/", "package.json">>
p_docs == <<".vscode", "/", "script-docs.json">>
p_custom == <<"docs", "/", "scripts.json">>

Includes(s, tok) == \E i \in 1..Len(s) : s[i] = tok

EndsWith(s, tok) == Len(s) > 0 /\ s[Len(s)] = tok

(***************************************************************************)
(* JavaScript values.                                                      *)
(***************************************************************************)
Undefined == [type |-> "undefined", val |-> <<>>]
NullV == [type |-> "null", val |-> <<>>]
ArrV == [type |-> "array", val |-> <<>>]
FnV == [type |-> "function", val |-> <<>>]
StrV(s) == [type |-> "string", val |-> s]
ObjV(f) == [type |-> "object", val |-> f]

EmptyObj == ObjV(<<>>)

ObjectPrototypeKeys == {n_constructor}

Truthy(v) ==
    CASE v.type = "undefined" -> FALSE
      [] v.type = "null" -> FALSE
      [] v.type = "string" -> v.val # <<>>
      [] OTHER -> TRUE

Keys(v) == IF v.type = "object" THEN DOMAIN v.val ELSE {}

\* v[k] for an object v: own property, else inherited, else undefined.
Get(v, k) ==
    IF v.type # "object" THEN Undefined
    ELSE IF k \in DOMAIN v.val THEN v.val[k]
    ELSE IF k \in ObjectPrototypeKeys THEN FnV
    ELSE Undefined

\* v?.[k]
OptGet(v, k) ==
    IF v.type \in {"undefined", "null"} THEN Undefined ELSE Get(v, k)

\* {...a, ...b}: own properties of b over those of a.
Spread(a, b) ==
    ObjV([k \in Keys(a) \cup Keys(b) |->
            IF k \in Keys(b) THEN b.val[k] ELSE a.val[k]])

JsString(v) ==
    CASE v.type = "string" -> v.val
      [] v.type = "object" -> <<"[object Object]">>
      [] v.type = "function" -> <<"function () { [native code] }">>
      [] OTHER -> <<v.type>>

(***************************************************************************)
(* The package.json document under the cursor.                             *)
(***************************************************************************)
EntryText(e) ==
    <<" ", Q>> \o e.key \o <<Q>> \o (IF e.gap THEN <<" ">> ELSE <<>>)
        \o <<":", " ", Q>> \o e.value \o <<Q>>

SectionText(name) == <<" ", Q>> \o name \o <<Q, ":", " ", "{">>

EntryLines(entries) == [i \in 1..Len(entries) |-> EntryText(entries[i])]

\* document.lineAt(i).text, for every line i.
Lines(doc) ==
    <<  <<"{">>,
        EntryText([key |-> n_name, value |-> <<"pkg">>, gap |-> FALSE])  >>
    \o (IF doc.hasScripts
        THEN <<SectionText(n_scripts)>> \o EntryLines(doc.scripts) \o << <<" ", "}">> >>
        ELSE <<>>)
    \o <<SectionText(n_dependencies)>> \o EntryLines(doc.deps) \o << <<" ", "}">> >>
    \o (IF doc.complete THEN << <<"}">> >> ELSE <<>>)

\* Which entry a line shows: its section and the entry, or section "none".
LineInfo(doc, i) ==
    LET s0 == 3
        ns == IF doc.hasScripts THEN Len(doc.scripts) ELSE 0
        d0 == IF doc.hasScripts THEN s0 + ns + 2 ELSE s0
    IN  IF doc.hasScripts /\ i > s0 /\ i <= s0 + ns
        THEN [section |-> "scripts", entry |-> doc.scripts[i - s0]]
        ELSE IF i > d0 /\ i <= d0 + Len(doc.deps)
        THEN [section |-> "dependencies", entry |-> doc.deps[i - d0]]
        ELSE [section |-> "none",
              entry |-> [key |-> <<>>, value |-> <<>>, gap |-> FALSE]]

\* The object a JSON object's members denote: the last duplicate wins.
EntriesObj(entries) ==
    ObjV([k \in {entries[i].key : i \in 1..Len(entries)} |->
            LET last == CHOOSE i \in 1..Len(entries) :
                            /\ entries[i].key = k
                            /\ \A j \in (i+1)..Len(entries) : entries[j].key # k
            IN  StrV(entries[last].value)])

\* JSON.parse(document.getText())
JSONParseDocument(doc) ==
    IF ~doc.complete
    THEN [ok |-> FALSE, value |-> Undefined]
    ELSE [ok |-> TRUE,
          value |-> ObjV(
              (n_name :> StrV(<<"pkg">>))
              @@ (IF doc.hasScripts
                  THEN n_scripts :> EntriesObj(doc.scripts)
                  ELSE <<>>)
              @@ (n_dependencies :> EntriesObj(doc.deps)))]

(***************************************************************************)
(* The two patterns that extract the script name from a line.              *)
(***************************************************************************)
NoMatch == [matched |-> FALSE, group |-> <<>>]

\* [a-zA-Z0-9_:-]
ScriptNameChars == AlnumWords \cup {"_", ":", "-"}

\* The first index >= i of s whose token is in (or, with neg, not in) S;
\* Len(s) + 1 when there is none.
Scan(s, i, S, neg) ==
    LET hits == {j \in i..Len(s) : (s[j] \in S) # neg}
    IN  IF hits = {} THEN Len(s) + 1
        ELSE CHOOSE j \in hits : \A k \in hits : j <= k

\* line.match(/"([^"]+)":/): leftmost opening quote, one or more non-quote
\* tokens, a closing quote and a colon right after it.
LegacyMatchAt(line, i) ==
    LET j == Scan(line, i + 1, {Q}, FALSE)
    IN  /\ line[i] = Q
        /\ j > i + 1
        /\ j + 1 <= Len(line)
        /\ line[j + 1] = ":"

LegacyLineMatch(line) ==
    LET starts == {i \in 1..Len(line) : LegacyMatchAt(line, i)}
    IN  IF starts = {} THEN NoMatch
        ELSE LET i == CHOOSE a \in starts : \A b \in starts : a <= b
                 j == Scan(line, i + 1, {Q}, FALSE)
             IN  [matched |-> TRUE, group |-> SubSeq(line, i + 1, j - 1)]

\* line.match(/^\s*"([a-zA-Z0-9_:-]+)"\s*:/)
NestedLineMatch(line) ==
    LET i == Scan(line, 1, Whitespace, TRUE)
        j == Scan(line, i + 1, ScriptNameChars, TRUE)
        k == Scan(line, j + 1, Whitespace, TRUE)
    IN  IF /\ i <= Len(line) /\ line[i] = Q
           /\ j > i + 1
           /\ j <= Len(line) /\ line[j] = Q
           /\ k <= Len(line) /\ line[k] = ":"
        THEN [matched |-> TRUE, group |-> SubSeq(line, i + 1, j - 1)]
        ELSE NoMatch

LineMatch(v, line) ==
    IF v = "legacy" THEN LegacyLineMatch(line) ELSE NestedLineMatch(line)

(***************************************************************************)
(* The documentation file and the workspace.                               *)
(***************************************************************************)
Absent == [kind |-> "absent", value |-> Undefined]
Garbage == [kind |-> "garbage", value |-> Undefined]
Json(v) == [kind |-> "json", value |-> v]

\* StringifyInner writing a property whose value is a function as null, as
\* JSON.stringify does for the elements of an array.
StringifyInnerFunctionsAsNull(v) ==
    IF v.type # "object" THEN v
    ELSE ObjV([k \in {x \in DOMAIN v.val : v.val[x].type # "undefined"} |->
                 IF v.val[k].type = "function" THEN NullV ELSE v.val[k]])

\* JSON.stringify of a value: a property whose value is a function or
\* undefined is left out, at both levels of a documentation object.
StringifyInner(v) ==
    IF v.type # "object" THEN v
    ELSE ObjV([k \in {x \in DOMAIN v.val :
                        v.val[x].type \notin {"function", "undefined"}} |->
                 v.val[k]])

Stringify(v) ==
    IF v.type # "object" THEN Json(v)
    ELSE Json(ObjV([k \in {x \in DOMAIN v.val :
                             v.val[x].type \notin {"function", "undefined"}} |->
                      StringifyInner(v.val[k])]))

\* findFiles without its exclude pattern.
FindPackageJsonFilesNoExclude(ws) ==
    {p \in DOMAIN ws : EndsWith(p, "package.json")}

\* vscode.workspace.findFiles("**/package.json", "**/node_modules/**"),
\* each result already through vscode.workspace.asRelativePath.
FindPackageJsonFiles(ws) ==
    {p \in DOMAIN ws : EndsWith(p, "package.json") /\ ~Includes(p, "node_modules")}

defaultDocs ==
    ObjV(  (n_dev :> StrV(<<"Runs development server (default port: 5173)">>))
        @@ (n_build :> StrV(<<"Creates a production build">>))
        @@ (<<"preview">> :> StrV(<<"Previews the built version locally">>))
        @@ (n_test :> StrV(<<"Runs tests">>))
        @@ (<<"lint">> :> StrV(<<"Runs code linting">>))
        @@ (<<"format">> :> StrV(<<"Formats the codebase">>)))

NoDescription == <<"No description available.">>

\* looksLikeOldStructure without the test key === "package.json".
looksLikeOldStructureNoRootKey(rawDocs) ==
    /\ Truthy(rawDocs)
    /\ rawDocs.type = "object"
    /\ Cardinality(Keys(rawDocs)) > 0
    /\ ~\E key \in Keys(rawDocs) : Includes(key, "/") \/ Includes(key, "\\")

looksLikeOldStructure(rawDocs) ==
    /\ Truthy(rawDocs)
    /\ rawDocs.type = "object"
    /\ Cardinality(Keys(rawDocs)) > 0
    /\ ~\E key \in Keys(rawDocs) :
          Includes(key, "/") \/ Includes(key, "\\") \/ key = p_root

\* The nested structure built from a flat one and the files findFiles gave.
NewStructure(rawDocs, packageJsonFiles) ==
    LET wrapped == ObjV(p_root :> rawDocs)
        added == {rp \in packageJsonFiles :
                    rp # p_root /\ ~Truthy(Get(wrapped, rp))}
    IN  ObjV([k \in {p_root} \cup added |->
                IF k = p_root THEN rawDocs ELSE EmptyObj])

(***************************************************************************)
(* provideHover.                                                           *)
(***************************************************************************)
NoHover ==
    [kind |-> "none", position |-> 0, scriptName |-> <<>>, description |-> <<>>,
     command |-> <<>>]

\* return null
NullHover(position) == [NoHover EXCEPT !.kind = "null", !.position = position]

\* provideHover's promise is rejected: an error reached the caller.
ErrorHover(position) == [NoHover EXCEPT !.kind = "error", !.position = position]

\* The locals of a request that is not running.  readAt is history: the
\* number of cache invalidations that had run when rawDocs was read.
NoLocals ==
    [position |-> 0, scriptName |-> <<>>, command |-> Undefined,
     rawDocs |-> Undefined, newStructure |-> Undefined, readAt |-> 0]

\* ResolveScript without the catch around JSON.parse: the SyntaxError leaves
\* provideHover.
ResolveScriptNoCatch(v, doc, position) ==
    LET parsed == JSONParseDocument(doc)
        m == LineMatch(v, Lines(doc)[position])
        scripts == Get(parsed.value, n_scripts)
        none == [outcome |-> "null", scriptName |-> <<>>, command |-> Undefined]
    IN  IF v = "nested" /\ ~EndsWith(doc.path, "package.json") THEN none
        ELSE IF ~parsed.ok THEN [none EXCEPT !.outcome = "error"]
        ELSE IF ~m.matched THEN none
        ELSE IF ~Truthy(OptGet(scripts, m.group)) THEN none
        ELSE [outcome |-> "script", scriptName |-> m.group,
              command |-> Get(scripts, m.group)]

\* provideHover before it loads the documentation: parse the document,
\* extract the name on the line, look it up in scripts.  outcome is "null"
\* (return null), "script" (go on with scriptName and command) or "error".
ResolveScript(v, doc, position) ==
    LET parsed == JSONParseDocument(doc)
        m == LineMatch(v, Lines(doc)[position])
        scripts == Get(parsed.value, n_scripts)
        none == [outcome |-> "null", scriptName |-> <<>>, command |-> Undefined]
    IN  IF v = "nested" /\ ~EndsWith(doc.path, "package.json") THEN none
        ELSE IF ~parsed.ok THEN none       \* catch (e) { return null; }
        ELSE IF ~m.matched THEN none
        ELSE IF ~Truthy(OptGet(scripts, m.group)) THEN none
        ELSE [outcome |-> "script", scriptName |-> m.group,
              command |-> Get(scripts, m.group)]

\* The description provideHover shows, from what loadCustomDocs returned.
Description(v, doc, docs, scriptName) ==
    LET d == IF v = "legacy"
             THEN Get(docs, scriptName)
             ELSE OptGet(OptGet(docs, doc.path), scriptName)
    IN  IF Truthy(d) THEN JsString(d) ELSE NoDescription

\* new vscode.Hover(content), as the fields the markdown is built from.
Rendered(v, doc, docs, l) ==
    [kind |-> "hover",
     position |-> l.position,
     scriptName |-> l.scriptName,
     description |-> Description(v, doc, docs, l.scriptName),
     command |-> JsString(l.command)]

\* provideHover returns h: the request is over and its locals are gone.
Return(t, h) ==
    /\ pc' = [pc EXCEPT ![t] = "idle"]
    /\ loc' = [loc EXCEPT ![t] = NoLocals]
    /\ hover' = h

\* provideHover up to its first suspension, which is in loadCustomDocs
\* unless the documentation is cached.
ProvideHover(t) ==
    /\ registrations # {}
    /\ pc[t] = "idle"
    /\ \E position \in 1..Len(Lines(document)) :
         LET r == ResolveScript(variant, document, position)
             l == [NoLocals EXCEPT !.position = position,
                                   !.scriptName = r.scriptName,
                                   !.command = r.command]
         IN  IF r.outcome = "error"
             THEN Return(t, ErrorHover(position)) /\ UNCHANGED reads
             ELSE IF r.outcome = "null"
             THEN Return(t, NullHover(position)) /\ UNCHANGED reads
             ELSE IF Truthy(cachedDocs)
             THEN /\ Return(t, Rendered(variant, document, cachedDocs, l))
                  /\ UNCHANGED reads
             ELSE IF variant = "nested" /\ workspaceFolders = 0
             THEN \* no workspace: loadCustomDocs returns null
                  /\ Return(t, Rendered(variant, document, NullV, l))
                  /\ UNCHANGED reads
             ELSE /\ reads + Cardinality({u \in Tasks : pc[u] = "findDocs"}) < MaxReads
                  /\ pc' = [pc EXCEPT ![t] =
                              IF variant = "nested" THEN "readFile" ELSE "findDocs"]
                  /\ loc' = [loc EXCEPT ![t] = l]
                  /\ reads' = IF variant = "nested" THEN reads + 1 ELSE reads
                  /\ UNCHANGED hover
    /\ UNCHANGED <<hostVars, updateVars, watchVars, workspaceFolders, variant, document, file, workspace, cachedDocs, writes>>

\* ReadFile with a catch that caches an empty object instead of null.
ReadFileCachesEmptyObject(t) ==
    /\ variant = "nested"
    /\ pc[t] = "readFile"
    /\ IF file.kind # "json"
       THEN \* FileNotFound, or JSON.parse throws
            /\ cachedDocs' = EmptyObj
            /\ Return(t, Rendered(variant, document, NullV, loc[t]))
       ELSE IF looksLikeOldStructure(file.value)
       THEN /\ loc' = [loc EXCEPT ![t].rawDocs = file.value,
                                   ![t].readAt = reloads + clears]
            /\ pc' = [pc EXCEPT ![t] = "findFiles"]
            /\ UNCHANGED <<cachedDocs, hover>>
       ELSE IF Truthy(file.value) /\ file.value.type = "object"
       THEN /\ cachedDocs' = file.value
            /\ Return(t, Rendered(variant, document, file.value, loc[t]))
       ELSE \* "script-docs.json has an invalid format."
            /\ cachedDocs' = EmptyObj
            /\ Return(t, Rendered(variant, document, NullV, loc[t]))
    /\ UNCHANGED <<hostVars, updateVars, watchVars, workspaceFolders, variant, document, file, workspace, writes, reads>>

\* ReadFile without the test !Array.isArray(rawDocs) of its second branch.
ReadFileAcceptsArrays(t) ==
    /\ variant = "nested"
    /\ pc[t] = "readFile"
    /\ IF file.kind # "json"
       THEN \* FileNotFound, or JSON.parse throws
            /\ cachedDocs' = NullV
            /\ Return(t, Rendered(variant, document, NullV, loc[t]))
       ELSE IF looksLikeOldStructure(file.value)
       THEN /\ loc' = [loc EXCEPT ![t].rawDocs = file.value,
                                   ![t].readAt = reloads + clears]
            /\ pc' = [pc EXCEPT ![t] = "findFiles"]
            /\ UNCHANGED <<cachedDocs, hover>>
       ELSE IF Truthy(file.value) /\ file.value.type \in {"object", "array"}
       THEN /\ cachedDocs' = file.value
            /\ Return(t, Rendered(variant, document, file.value, loc[t]))
       ELSE \* "script-docs.json has an invalid format."
            /\ cachedDocs' = NullV
            /\ Return(t, Rendered(variant, document, NullV, loc[t]))
    /\ UNCHANGED <<hostVars, updateVars, watchVars, workspaceFolders, variant, document, file, workspace, writes, reads>>

\* Nested provider: fs.readFile(scriptDocsUri) settles, and loadCustomDocs
\* runs on to its next suspension or to its return.
ReadFile(t) ==
    /\ variant = "nested"
    /\ pc[t] = "readFile"
    /\ IF file.kind # "json"
       THEN \* FileNotFound, or JSON.parse throws
            /\ cachedDocs' = NullV
            /\ Return(t, Rendered(variant, document, NullV, loc[t]))
       ELSE IF looksLikeOldStructure(file.value)
       THEN /\ loc' = [loc EXCEPT ![t].rawDocs = file.value,
                                   ![t].readAt = reloads + clears]
            /\ pc' = [pc EXCEPT ![t] = "findFiles"]
            /\ UNCHANGED <<cachedDocs, hover>>
       ELSE IF Truthy(file.value) /\ file.value.type = "object"
       THEN /\ cachedDocs' = file.value
            /\ Return(t, Rendered(variant, document, file.value, loc[t]))
       ELSE \* "script-docs.json has an invalid format."
            /\ cachedDocs' = NullV
            /\ Return(t, Rendered(variant, document, NullV, loc[t]))
    /\ UNCHANGED <<hostVars, updateVars, watchVars, workspaceFolders, variant, document, file, workspace, writes, reads>>

\* Nested provider, migration: findFiles settles; the new structure is built
\* and fs.writeFile is called.
FindFiles(t) ==
    /\ variant = "nested"
    /\ pc[t] = "findFiles"
    /\ loc' = [loc EXCEPT ![t].newStructure =
                 NewStructure(loc[t].rawDocs, FindPackageJsonFiles(workspace))]
    /\ pc' = [pc EXCEPT ![t] = "writeFile"]
    /\ UNCHANGED <<hostVars, updateVars, watchVars, workspaceFolders, variant, document, file, workspace, cachedDocs, hover, writes, reads>>

\* Nested provider, migration: fs.writeFile settles; the file holds the new
\* structure, which is cached and used for the hover.
WriteFile(t) ==
    /\ variant = "nested"
    /\ pc[t] = "writeFile"
    /\ file' = Stringify(loc[t].newStructure)
    /\ writes' = writes + 1
    /\ cachedDocs' = loc[t].newStructure
    /\ Return(t, Rendered(variant, document, loc[t].newStructure, loc[t]))
    /\ UNCHANGED <<hostVars, updateVars, watchVars, workspaceFolders, variant, document, workspace, reads>>

\* config.get("customDocsPath") ?? ".vscode/script-docs.json"
customDocsPath ==
    IF config.customDocsPath.type \in {"undefined", "null"}
    THEN p_docs ELSE config.customDocsPath.val

\* The file of the workspace at a path: the documentation file, the file
\* the setting names, or none.
FileAt(path) ==
    IF path = p_docs THEN file
    ELSE IF path = p_custom THEN customFile
    ELSE Absent

\* Legacy provider: findFiles(customDocsPath, null, 1) settles.
FindDocs(t) ==
    /\ variant = "legacy"
    /\ pc[t] = "findDocs"
    /\ IF FileAt(customDocsPath).kind # "absent"
       THEN /\ pc' = [pc EXCEPT ![t] = "readDocs"]
            /\ reads' = reads + 1
            /\ UNCHANGED <<cachedDocs, hover, loc>>
       ELSE /\ cachedDocs' = defaultDocs
            /\ Return(t, Rendered(variant, document, defaultDocs, loc[t]))
            /\ UNCHANGED reads
    /\ UNCHANGED <<hostVars, updateVars, watchVars, workspaceFolders, variant, document, file, workspace, writes>>

\* ReadDocs without the assignment to this.cachedDocs.
ReadDocsNoStore(t) ==
    /\ variant = "legacy"
    /\ pc[t] = "readDocs"
    /\ LET content == FileAt(customDocsPath)
           docs == IF content.kind = "json"
                   THEN Spread(defaultDocs, content.value)
                   ELSE defaultDocs
       IN  Return(t, Rendered(variant, document, docs, loc[t]))
    /\ UNCHANGED <<hostVars, updateVars, watchVars, workspaceFolders, variant, document, file, workspace, writes, reads, cachedDocs>>

\* Legacy provider: fs.readFile(files[0]) settles; custom over default.
ReadDocs(t) ==
    /\ variant = "legacy"
    /\ pc[t] = "readDocs"
    /\ LET content == FileAt(customDocsPath)
           docs == IF content.kind = "json"
                   THEN Spread(defaultDocs, content.value)
                   ELSE defaultDocs
       IN  /\ cachedDocs' = docs
           /\ Return(t, Rendered(variant, document, docs, loc[t]))
    /\ UNCHANGED <<hostVars, updateVars, watchVars, workspaceFolders, variant, document, file, workspace, writes, reads>>

\* PackageJsonHoverProvider.clearCache, from the reload command.
clearCache ==
    /\ cachedDocs' = NullV
    /\ UNCHANGED <<hostVars, updateVars, watchVars, workspaceFolders, variant, document, file, workspace, pc, loc, hover, writes, reads>>

(***************************************************************************)
(* The command packageScriptsHover.updateScriptDocs.                       *)
(***************************************************************************)
\* The command is not running; existingDocs = {}, fileExists = false and
\* newDocs = {} are what its locals start from.
NoCmd ==
    [pc |-> "idle", existingDocs |-> EmptyObj, fileExists |-> FALSE,
     todo |-> {}, newDocs |-> EmptyObj]

Template(scriptName, relativePath, command) ==
    <<"Description for '">> \o scriptName \o <<"' script in ">>
        \o relativePath \o <<": ">> \o JsString(command)

ProcessError == ObjV(<<"__error__">> :> StrV(<<"Failed to process: ", "SyntaxError">>))

\* The command leaves with an error message, or with none.
Leave(m) ==
    /\ cmd' = NoCmd
    /\ message' = m

\* The command is invoked and runs to the await of createDirectory, or to
\* its catch when the window has no workspace folder.
UpdateCommand ==
    /\ cmd.pc = "idle"
    /\ runs < MaxRuns
    /\ runs' = runs + 1
    /\ IF workspaceFolders = 0
       THEN Leave(<<"Failed to update script-docs.json: ", "No workspace folder found">>)
       ELSE /\ cmd' = [NoCmd EXCEPT !.pc = "createDirectory"]
            /\ UNCHANGED message
    /\ UNCHANGED <<hostVars, watchVars, loadVars>>

\* createDirectory settles either way; readFile(scriptDocsUri) is called.
CreateDirectory ==
    /\ cmd.pc = "createDirectory"
    /\ cmd' = [cmd EXCEPT !.pc = "readFile"]
    /\ UNCHANGED <<hostVars, watchVars, loadVars, message, runs>>

\* readFile(scriptDocsUri) settles; findFiles is called.
ReadExisting ==
    /\ cmd.pc = "readFile"
    /\ IF file.kind = "json"
       THEN /\ cmd' = [cmd EXCEPT !.pc = "findFiles",
                                  !.existingDocs = file.value,
                                  !.fileExists = TRUE]
            /\ message' = <<"Existing script-docs.json found. Merging new scripts.">>
       ELSE /\ cmd' = [cmd EXCEPT !.pc = "findFiles"]
            /\ message' = IF file.kind = "absent"
                          THEN <<"script-docs.json not found. Creating a new one.">>
                          ELSE <<"Failed to read existing script-docs.json.">>
    /\ UNCHANGED <<hostVars, watchVars, loadVars, runs>>

\* FindPackageJson without the throw when nothing was found and no
\* documentation file exists.
FindPackageJsonNoThrow ==
    /\ cmd.pc = "findFiles"
    /\ LET packageJsonFiles == FindPackageJsonFiles(workspace)
       IN  IF packageJsonFiles = {}
           THEN /\ cmd' = [cmd EXCEPT !.pc = "keepFile"]
                /\ message' = <<"No package.json files found in workspace, but existing script-docs.json will be kept.">>
           ELSE /\ cmd' = [cmd EXCEPT !.pc = "readPackageJson",
                                      !.todo = packageJsonFiles]
                /\ UNCHANGED message
    /\ UNCHANGED <<hostVars, watchVars, loadVars, runs>>

\* findFiles settles: the loop over the files starts, or nothing was found.
FindPackageJson ==
    /\ cmd.pc = "findFiles"
    /\ LET packageJsonFiles == FindPackageJsonFiles(workspace)
       IN  IF packageJsonFiles = {}
           THEN IF ~cmd.fileExists
                THEN Leave(<<"Failed to update script-docs.json: ",
                             "No package.json files found in workspace and no existing script-docs.json.">>)
                ELSE /\ cmd' = [cmd EXCEPT !.pc = "keepFile"]
                     /\ message' = <<"No package.json files found in workspace, but existing script-docs.json will be kept.">>
           ELSE /\ cmd' = [cmd EXCEPT !.pc = "readPackageJson",
                                      !.todo = packageJsonFiles]
                /\ UNCHANGED message
    /\ UNCHANGED <<hostVars, watchVars, loadVars, runs>>

\* Documented without the branch that keeps the existing entry of a file
\* that has no scripts.
DocumentedDropsEntry(existingDocs, newDocs, relativePath, packageJson) ==
    LET scripts == Get(packageJson, n_scripts)
        fresh == IF Truthy(Get(newDocs, relativePath))
                 THEN Get(newDocs, relativePath) ELSE EmptyObj
    IN  IF Truthy(scripts)
        THEN ObjV([scriptName \in Keys(fresh) \cup Keys(scripts) |->
                IF scriptName \in Keys(scripts)
                THEN LET existingDescription ==
                             OptGet(Get(existingDocs, relativePath), scriptName)
                     IN  IF Truthy(existingDescription)
                         THEN existingDescription
                         ELSE StrV(Template(scriptName, relativePath,
                                            Get(scripts, scriptName)))
                ELSE fresh.val[scriptName]])
        ELSE EmptyObj

\* newDocs[relativePath] after the body of the loop for one file whose
\* content parsed.
Documented(existingDocs, newDocs, relativePath, packageJson) ==
    LET scripts == Get(packageJson, n_scripts)
        fresh == IF Truthy(Get(newDocs, relativePath))
                 THEN Get(newDocs, relativePath) ELSE EmptyObj
    IN  IF Truthy(scripts)
        THEN ObjV([scriptName \in Keys(fresh) \cup Keys(scripts) |->
                IF scriptName \in Keys(scripts)
                THEN LET existingDescription ==
                             OptGet(Get(existingDocs, relativePath), scriptName)
                     IN  IF Truthy(existingDescription)
                         THEN existingDescription
                         ELSE StrV(Template(scriptName, relativePath,
                                            Get(scripts, scriptName)))
                ELSE fresh.val[scriptName]])
        ELSE IF Truthy(Get(existingDocs, relativePath))
        THEN Get(existingDocs, relativePath)
        ELSE EmptyObj

\* The merge after the loop: what the existing documentation has and the
\* scan has not.
Merged(existingDocs, newDocs) ==
    LET kept == {existingPath \in Keys(existingDocs) :
                    ~Truthy(Get(newDocs, existingPath))}
    IN  ObjV([k \in Keys(newDocs) \cup kept |->
                IF k \in kept THEN existingDocs.val[k] ELSE newDocs.val[k]])

\* readFile(fileUri) settles for one of the files found; the body of the
\* loop runs, and after the last file the merge and the call of writeFile.
\* existingDocs[relativePath] throws a TypeError when existingDocs is null.
ReadPackageJson ==
    /\ cmd.pc = "readPackageJson"
    /\ \E fileUri \in cmd.todo :
         LET content == workspace[fileUri]
             packageJson == content.value
             scripts == Get(packageJson, n_scripts)
             indexes == content.kind # "json" \/ ~Truthy(scripts) \/ Keys(scripts) # {}
             entry == IF content.kind = "json"
                      THEN Documented(cmd.existingDocs, cmd.newDocs, fileUri, packageJson)
                      ELSE IF Truthy(Get(cmd.existingDocs, fileUri))
                      THEN Get(cmd.existingDocs, fileUri)
                      ELSE ProcessError
             newDocs == ObjV([k \in Keys(cmd.newDocs) \cup {fileUri} |->
                                IF k = fileUri THEN entry ELSE cmd.newDocs.val[k]])
             todo == cmd.todo \ {fileUri}
         IN  IF cmd.existingDocs.type = "null" /\ indexes
             THEN Leave(<<"Failed to update script-docs.json: ",
                          "Cannot read properties of null">>)
             ELSE /\ cmd' = [cmd EXCEPT
                        !.todo = todo,
                        !.newDocs = IF todo = {} THEN Merged(cmd.existingDocs, newDocs)
                                    ELSE newDocs,
                        !.pc = IF todo = {} THEN "writeFile" ELSE "readPackageJson"]
                  /\ UNCHANGED message
    /\ UNCHANGED <<hostVars, watchVars, loadVars, runs>>

\* writeFile(scriptDocsUri, JSON.stringify(newDocs)) settles.
WriteDocs ==
    /\ cmd.pc = "writeFile"
    /\ file' = Stringify(cmd.newDocs)
    /\ cmd' = [cmd EXCEPT !.pc = "showDocument"]
    /\ UNCHANGED <<hostVars, watchVars, variant, document, workspace, workspaceFolders,
                   cachedDocs, pc, loc, hover, writes, reads, message, runs>>

\* No package.json was found: writeFile(scriptDocsUri,
\* JSON.stringify(existingDocs)) settles.
KeepDocs ==
    /\ cmd.pc = "keepFile"
    /\ file' = Stringify(cmd.existingDocs)
    /\ cmd' = [cmd EXCEPT !.pc = "showKept"]
    /\ UNCHANGED <<hostVars, watchVars, variant, document, workspace, workspaceFolders,
                   cachedDocs, pc, loc, hover, writes, reads, message, runs>>

\* openTextDocument and showTextDocument settle; the command returns.
ShowDocument ==
    /\ cmd.pc \in {"showDocument", "showKept"}
    /\ IF cmd.pc = "showDocument"
       THEN Leave(<<"script-docs.json has been updated successfully!">>)
       ELSE Leave(message)
    /\ UNCHANGED <<hostVars, watchVars, loadVars, runs>>

(***************************************************************************)
(* The watcher of the documentation file and the debounced clearCache.     *)
(*                                                                         *)
(* Time is the clock of the extension host.  A timer runs when it is due:  *)
(* the clock does not pass the deadline of an armed timer, and in a turn   *)
(* of the event loop the timers that are due run before a watcher event    *)
(* is delivered.                                                           *)
(***************************************************************************)
Wait == 500

NullTimeout == 0

\* setTimeout(later, wait) after the clearTimeout left out: the timers table.
ArmNoClearTimeout(table, pending, handle, due) ==
    table \cup {[id |-> handle, due |-> due]}

\* clearTimeout(timeout) if timeout is not null, then setTimeout(later, wait):
\* the timers table afterwards.
Arm(table, pending, handle, due) ==
    {t \in table : t.id # pending} \cup {[id |-> handle, due |-> due]}

\* The function debounce returns, called by a listener of the watcher.
debouncedClearCache ==
    /\ active
    /\ events < MaxEvents
    /\ \A t \in timers : t.due > now
    /\ events' = events + 1
    /\ timers' = Arm(timers, timeout, events + 1, now + Wait)
    /\ timeout' = events + 1
    /\ bursts' = IF events = 0 \/ now - lastEvent >= Wait
                 THEN bursts + 1 ELSE bursts
    /\ lastEvent' = now
    /\ UNCHANGED <<now, clears>>

DocsContents == {Json(EmptyObj), Json(ObjV(p_root :> ObjV(n_test :> StrV(<<"old">>))))}

\* The documentation file is written and the onDidChange listener runs.
OnDidChange ==
    /\ file.kind # "absent"
    /\ file' \in DocsContents \ {file}
    /\ debouncedClearCache
    /\ UNCHANGED <<hostVars, updateVars, variant, document, workspace, workspaceFolders,
                   cachedDocs, pc, loc, hover, writes, reads>>

\* The documentation file is created and the onDidCreate listener runs.
OnDidCreate ==
    /\ file.kind = "absent"
    /\ file' \in DocsContents
    /\ debouncedClearCache
    /\ UNCHANGED <<hostVars, updateVars, variant, document, workspace, workspaceFolders,
                   cachedDocs, pc, loc, hover, writes, reads>>

\* The documentation file is deleted and the onDidDelete listener runs.
OnDidDelete ==
    /\ file.kind # "absent"
    /\ file' = Absent
    /\ debouncedClearCache
    /\ UNCHANGED <<hostVars, updateVars, variant, document, workspace, workspaceFolders,
                   cachedDocs, pc, loc, hover, writes, reads>>

\* A timer is due and its callback, later, runs: timeout = null, then the
\* debounced function, which clears the cache and shows the notification.
Later ==
    /\ \E t \in timers :
         /\ t.due <= now
         /\ timers' = timers \ {t}
    /\ timeout' = NullTimeout
    /\ cachedDocs' = NullV
    /\ clears' = clears + 1
    /\ message' = <<"Package Scripts documentation cache reloaded.">>
    /\ UNCHANGED <<hostVars, cmd, runs, variant, document, file, workspace,
                   workspaceFolders, pc, loc, hover, writes, reads,
                   now, events, lastEvent, bursts>>

\* Half the debounce delay passes.
Tick ==
    /\ now + Wait \div 2 <= MaxTime
    /\ \A t \in timers : t.due >= now + Wait \div 2
    /\ now' = now + Wait \div 2
    /\ UNCHANGED <<hostVars, loadVars, updateVars, timers, timeout, events, lastEvent,
                   bursts, clears>>

(***************************************************************************)
(* The commands activate registers.                                        *)
(***************************************************************************)
\* hoverProvider = undefined
NoRegistration == 0

\* vscode.languages.registerHoverProvider: the Disposable it returns, a
\* handle no live registration has.
Register(live) ==
    CHOOSE h \in 1..(Cardinality(live) + 1) : h \notin live

\* activate: a new provider with an empty cache, the debounced clearCache
\* with no timer pending, the watcher, the commands, and the hover provider
\* registered.  No setting is read.
activate ==
    /\ ~active
    /\ ~deactivated
    /\ active' = TRUE
    /\ cachedDocs' = NullV
    /\ timeout' = NullTimeout
    /\ hoverProvider' = Register(registrations)
    /\ registrations' = registrations \cup {Register(registrations)}
    /\ UNCHANGED <<updateVars, deactivated, config, customFile, reloads, variant,
                   document, file, workspace, workspaceFolders, pc, loc, hover,
                   writes, reads, now, timers, events, lastEvent, bursts, clears>>

\* The enable command without its test of hoverProvider.
enableCommandRegistersAgain ==
    /\ active
    /\ hoverProvider' = Register(registrations)
    /\ registrations' = registrations \cup {Register(registrations)}
    /\ message' = <<"Package Scripts Hover is now enabled">>
    /\ UNCHANGED <<loadVars, watchVars, cmd, runs, active, deactivated, config,
                   customFile, reloads>>

\* package-scripts-hover.enable
enableCommand ==
    /\ active
    /\ IF hoverProvider = NoRegistration
       THEN /\ hoverProvider' = Register(registrations)
            /\ registrations' = registrations \cup {Register(registrations)}
            /\ message' = <<"Package Scripts Hover is now enabled">>
       ELSE /\ message' = <<"Package Scripts Hover is already enabled">>
            /\ UNCHANGED <<hoverProvider, registrations>>
    /\ UNCHANGED <<loadVars, watchVars, cmd, runs, active, deactivated, config,
                   customFile, reloads>>

\* package-scripts-hover.disable
disableCommand ==
    /\ active
    /\ IF hoverProvider # NoRegistration
       THEN /\ registrations' = registrations \ {hoverProvider}
            /\ hoverProvider' = NoRegistration
            /\ message' = <<"Package Scripts Hover is now disabled">>
       ELSE /\ message' = <<"Package Scripts Hover is already disabled">>
            /\ UNCHANGED <<hoverProvider, registrations>>
    /\ UNCHANGED <<loadVars, watchVars, cmd, runs, active, deactivated, config,
                   customFile, reloads>>

\* deactivate, and the host disposing context.subscriptions after it: the
\* registration hoverProvider holds is disposed and the variable unset,
\* the watcher and the commands are gone, and so is every registration,
\* as activate and the enable command pushed each one to the
\* subscriptions.  The timer of the debounce closure is left as it is.
deactivate ==
    /\ active
    /\ active' = FALSE
    /\ deactivated' = TRUE
    /\ hoverProvider' = NoRegistration
    /\ registrations' = {}
    /\ UNCHANGED <<loadVars, updateVars, watchVars, config, customFile, reloads>>

\* The reload command without its call of clearCache.
reloadCommandKeepsCache ==
    /\ active
    /\ reloads < MaxReloads
    /\ reloads' = reloads + 1
    /\ message' = <<"Package Scripts documentation has been reloaded">>
    /\ UNCHANGED <<loadVars, watchVars, cmd, runs, active, hoverProvider,
                   registrations, deactivated, config, customFile>>

\* package-scripts-hover.reload: provider.clearCache() and a message.
reloadCommand ==
    /\ active
    /\ reloads < MaxReloads
    /\ reloads' = reloads + 1
    /\ cachedDocs' = NullV
    /\ message' = <<"Package Scripts documentation has been reloaded">>
    /\ UNCHANGED <<watchVars, cmd, runs, active, hoverProvider, registrations,
                   deactivated, config, customFile, variant, document, file, workspace,
                   workspaceFolders, pc, loc, hover, writes, reads>>

(***************************************************************************)
(* Initial states.                                                         *)
(***************************************************************************)
ScriptNames == {n_test, n_lint_fix, n_constructor}
Commands == {c_jest, c_empty}
DepNames == {n_test, n_constructor}

\* "<name>": "<cmd>", and "<name>" : "<cmd>" with a space before the colon.
ScriptEntries ==
    {[key |-> k, value |-> c, gap |-> FALSE] : k \in ScriptNames, c \in Commands}
    \cup {[key |-> k, value |-> c_jest, gap |-> TRUE] : k \in ScriptNames}

DepEntries == {[key |-> k, value |-> <<"1">>, gap |-> FALSE] : k \in DepNames}

\* Sequences of at most n entries of S with pairwise different keys.
EntrySeqs(S, n) ==
    UNION {{q \in [1..m -> S] :
              \A i, j \in 1..m : i # j => q[i].key # q[j].key} : m \in 0..n}

Documents ==
    {[path |-> p_root, hasScripts |-> hs, scripts |-> sc, deps |-> dp,
      complete |-> cp] :
        hs \in {TRUE}, sc \in EntrySeqs(ScriptEntries, MaxScripts),
        dp \in EntrySeqs(DepEntries, MaxDeps), cp \in BOOLEAN}
    \cup
    {[path |-> p_root, hasScripts |-> FALSE, scripts |-> <<>>, deps |-> dp,
      complete |-> cp] :
        dp \in EntrySeqs(DepEntries, MaxDeps), cp \in BOOLEAN}

ExampleDocument ==
    [path |-> p_root, hasScripts |-> TRUE,
     scripts |-> << [key |-> n_test, value |-> c_jest, gap |-> FALSE],
                    [key |-> n_build, value |-> c_tsc, gap |-> FALSE] >>,
     deps |-> <<>>, complete |-> TRUE]

PackageJson(scripts) == Json(ObjV((n_name :> StrV(<<"pkg">>)) @@ (n_scripts :> scripts)))

ExampleWorkspace ==
    (p_root :> PackageJson(EntriesObj(ExampleDocument.scripts)))
    @@ (p_a :> PackageJson(ObjV(n_dev :> StrV(c_tsc))))
    @@ (p_nm :> PackageJson(ObjV(n_test :> StrV(c_jest))))

NoFiles == [p \in {} |-> Absent]

Workspaces ==
    {[p \in D |-> ExampleWorkspace[p]] : D \in {{p_root}, {p_root, p_a}, {p_root, p_a, p_nm}}}

FlatDocs == ObjV((n_dev :> StrV(<<"x">>)) @@ (n_build :> StrV(<<"y">>)))
FlatTestDocs == ObjV(n_test :> StrV(<<"old">>))
NestedDocs == ObjV((p_root :> FlatTestDocs) @@ (p_a :> EmptyObj))

\* Objects whose values are neither descriptions nor mappings of them.
MisshapenDocs == ObjV(p_root :> StrV(<<"x">>))
MisshapenFlatDocs == ObjV(n_test :> EmptyObj)

DocsFiles ==
    {Absent, Garbage, Json(ArrV), Json(NullV), Json(EmptyObj),
     Json(FlatDocs), Json(FlatTestDocs), Json(NestedDocs),
     Json(MisshapenDocs), Json(MisshapenFlatDocs)}

InitWatch ==
    /\ now = 0
    /\ timers = {}
    /\ timeout = NullTimeout
    /\ events = 0
    /\ lastEvent = 0
    /\ bursts = 0
    /\ clears = 0

\* The settings nobody has set.
DefaultConfig == [enabled |-> TRUE, customDocsPath |-> Undefined]

\* The extension activated, its hover provider registered.
InitHost ==
    /\ active = TRUE
    /\ hoverProvider = 1
    /\ registrations = {1}
    /\ deactivated = FALSE
    /\ config = DefaultConfig
    /\ customFile = Absent
    /\ reloads = 0

InitCommon ==
    /\ InitWatch
    /\ InitHost
    /\ variant \in {"legacy", "nested"}
    /\ cmd = NoCmd
    /\ message = <<>>
    /\ runs = 0
    /\ cachedDocs = NullV
    /\ pc = [t \in Tasks |-> "idle"]
    /\ loc = [t \in Tasks |-> NoLocals]
    /\ hover = NoHover
    /\ writes = 0
    /\ reads = 0

\* The provider with concurrent hover requests on one document, in a
\* workspace folder or in a window without one.
Init ==
    /\ InitCommon
    /\ document = ExampleDocument
    /\ \/ /\ workspaceFolders = 1
          /\ file \in DocsFiles
          /\ workspace \in Workspaces
       \/ /\ workspaceFolders = 0
          /\ file = Absent
          /\ workspace = NoFiles

HoverStep(t) ==
    \/ ProvideHover(t)
    \/ ReadFile(t)
    \/ FindFiles(t)
    \/ WriteFile(t)
    \/ FindDocs(t)
    \/ ReadDocs(t)

Next ==
    \/ \E t \in Tasks : HoverStep(t)
    \/ clearCache

Spec == Init /\ [][Next]_vars

\* One hover request at a time, over every document of the bounds.
InitHover ==
    /\ InitCommon
    /\ document \in Documents
    /\ file \in {Absent, Json(FlatTestDocs), Json(NestedDocs)}
    /\ workspace = ExampleWorkspace
    /\ workspaceFolders = 1

NextHover == HoverStep(1)

SpecHover == InitHover /\ [][NextHover]_vars

\* The update command over every workspace and documentation file of the
\* bounds, with no hover request.
Packages ==
    {PackageJson(ObjV(n_build :> StrV(c_tsc))),
     PackageJson(ObjV((n_build :> StrV(c_tsc)) @@ (n_constructor :> StrV(c_jest)))),
     PackageJson(EmptyObj),
     Json(ObjV(n_name :> StrV(<<"pkg">>))),
     Garbage}

UpdateWorkspaces ==
    {NoFiles, p_nm :> ExampleWorkspace[p_nm]}
    \cup {(p_root :> r) @@ (p_nm :> ExampleWorkspace[p_nm]) : r \in Packages}
    \cup {(p_root :> r) @@ (p_a :> ExampleWorkspace[p_a]) : r \in Packages}

BuildDocs(d) == ObjV(p_root :> ObjV(n_build :> StrV(d)))

UpdateDocsFiles ==
    {Absent, Garbage, Json(NullV), Json(ArrV), Json(EmptyObj), Json(FlatDocs),
     Json(BuildDocs(<<"old desc">>)), Json(BuildDocs(<<>>)),
     Json(ObjV((p_root :> FlatTestDocs) @@ (p_a :> EmptyObj)
               @@ (<<"packages", "/", "gone", "/", "package.json">> :> FlatDocs)))}

InitUpdate ==
    /\ InitCommon
    /\ variant = "nested"
    /\ document = ExampleDocument
    /\ \/ /\ workspaceFolders = 1
          /\ file \in UpdateDocsFiles
          /\ workspace \in UpdateWorkspaces
       \/ /\ workspaceFolders = 0
          /\ file = Absent
          /\ workspace = NoFiles

NextUpdate ==
    \/ UpdateCommand
    \/ CreateDirectory
    \/ ReadExisting
    \/ FindPackageJson
    \/ ReadPackageJson
    \/ WriteDocs
    \/ KeepDocs
    \/ ShowDocument

SpecUpdate == InitUpdate /\ [][NextUpdate]_vars

\* The activated extension with its watcher, the documentation loaded or
\* not, and no hover request.
InitDebounce ==
    /\ InitWatch
    /\ InitHost
    /\ variant = "nested"
    /\ document = ExampleDocument
    /\ workspace = ExampleWorkspace
    /\ workspaceFolders = 1
    /\ file \in DocsContents \cup {Absent}
    /\ cachedDocs \in {NullV} \cup {file.value : x \in {file} \ {Absent}}
    /\ pc = [t \in Tasks |-> "idle"]
    /\ loc = [t \in Tasks |-> NoLocals]
    /\ hover = NoHover
    /\ writes = 0
    /\ reads = 0
    /\ cmd = NoCmd
    /\ message = <<>>
    /\ runs = 0

NextDebounce ==
    \/ OnDidChange
    \/ OnDidCreate
    \/ OnDidDelete
    \/ Later
    \/ Tick

SpecDebounce == InitDebounce /\ [][NextDebounce]_vars

\* The activated extension: hover requests one after another, the reload
\* command, and the documentation file changing once under the watcher,
\* followed for twice the debounce delay.
InitReload ==
    /\ InitCommon
    /\ document = ExampleDocument
    /\ workspace = ExampleWorkspace
    /\ workspaceFolders = 1
    /\ file \in DocsContents \cup {Absent, Json(FlatTestDocs)}

FirstChange == events = 0 /\ OnDidChange

FirstCreate == events = 0 /\ OnDidCreate

FirstDelete == events = 0 /\ OnDidDelete

EarlyTick == now < 2 * Wait /\ Tick

NextReload ==
    \/ HoverStep(1)
    \/ reloadCommand
    \/ FirstChange
    \/ FirstCreate
    \/ FirstDelete
    \/ Later
    \/ EarlyTick

SpecReload == InitReload /\ [][NextReload]_vars

\* The extension from before its activation, under every setting of the
\* bounds, with the commands and hover requests one after another.
CustomDocs == ObjV(n_test :> StrV(<<"custom">>))

Settings ==
    {[enabled |-> e, customDocsPath |-> c] :
        e \in BOOLEAN, c \in {Undefined, StrV(p_custom)}}

InitSettings ==
    /\ InitWatch
    /\ active = FALSE
    /\ hoverProvider = NoRegistration
    /\ registrations = {}
    /\ deactivated = FALSE
    /\ config \in Settings
    /\ customFile \in {Absent, Json(CustomDocs)}
    /\ reloads = 0
    /\ variant \in {"legacy", "nested"}
    /\ document = ExampleDocument
    /\ workspace = ExampleWorkspace
    /\ workspaceFolders = 1
    /\ file \in {Absent, Json(FlatTestDocs)}
    /\ cachedDocs = NullV
    /\ pc = [t \in Tasks |-> "idle"]
    /\ loc = [t \in Tasks |-> NoLocals]
    /\ hover = NoHover
    /\ writes = 0
    /\ reads = 0
    /\ cmd = NoCmd
    /\ message = <<>>
    /\ runs = 0

NextSettings ==
    \/ activate
    \/ enableCommand
    \/ disableCommand
    \/ reloadCommand
    \/ HoverStep(1)

SpecSettings == InitSettings /\ [][NextSettings]_vars

\* The life of the extension: activation, the enable, disable and reload
\* commands, watcher events and the timers they arm, and deactivation.
InitLifecycle ==
    /\ InitWatch
    /\ active = FALSE
    /\ hoverProvider = NoRegistration
    /\ registrations = {}
    /\ deactivated = FALSE
    /\ config = DefaultConfig
    /\ customFile = Absent
    /\ reloads = 0
    /\ variant \in {"legacy", "nested"}
    /\ document = ExampleDocument
    /\ workspace = ExampleWorkspace
    /\ workspaceFolders = 1
    /\ file \in DocsContents \cup {Absent}
    /\ cachedDocs = NullV
    /\ pc = [t \in Tasks |-> "idle"]
    /\ loc = [t \in Tasks |-> NoLocals]
    /\ hover = NoHover
    /\ writes = 0
    /\ reads = 0
    /\ cmd = NoCmd
    /\ message = <<>>
    /\ runs = 0

NextLifecycle ==
    \/ activate
    \/ enableCommand
    \/ disableCommand
    \/ reloadCommand
    \/ deactivate
    \/ OnDidChange
    \/ OnDidCreate
    \/ OnDidDelete
    \/ Later
    \/ Tick

SpecLifecycle == InitLifecycle /\ [][NextLifecycle]_vars

(***************************************************************************)
(* Properties of the hover resolver (SpecHover).                           *)
(***************************************************************************)
Parsed == JSONParseDocument(document)

Scripts == Get(Parsed.value, n_scripts)

\* The member of the document on the line of the latest finished request.
Hovered == LineInfo(document, hover.position)

HoveredLine == Lines(document)[hover.position]

\* C1: in a document that parses and has a scripts object, hovering a line
\* of the form "<name>": "<cmd>" whose <name> is a key of scripts returns a
\* hover with exactly that name and the command scripts[<name>].
C1_ScriptLineGetsHover ==
    (/\ hover.kind # "none"
     /\ Parsed.ok
     /\ Scripts.type = "object"
     /\ Hovered.section # "none"
     /\ ~Hovered.entry.gap
     /\ Hovered.entry.key \in Keys(Scripts))
    => /\ hover.kind = "hover"
       /\ hover.scriptName = Hovered.entry.key
       /\ hover.command = Scripts.val[Hovered.entry.key].val

\* C2: in a document that parses, hovering a line whose extracted key is not
\* a key of scripts (no scripts object, or no quoted key before a colon,
\* included) returns null.
C2_NotAScriptKeyGetsNull ==
    (/\ hover.kind # "none"
     /\ Parsed.ok
     /\ LET m == LineMatch(variant, HoveredLine)
        IN  ~m.matched \/ m.group \notin Keys(Scripts))
    => hover.kind = "null"

\* C3: hovering a line outside the scripts object returns null, whatever key
\* the line holds, a key that is also the name of a script included.
C3_OutsideScriptsGetsNull ==
    (hover.kind # "none" /\ Parsed.ok /\ Hovered.section # "scripts")
    => hover.kind = "null"

\* C4: when the document text is not valid JSON, provideHover returns null
\* at every position, and no error reaches the caller.
C4_InvalidJsonGetsNull ==
    (hover.kind # "none" /\ ~Parsed.ok) => hover.kind = "null"

C4_Witness ==
    /\ ~Parsed.ok
    /\ hover.kind = "null"
    /\ Hovered.section = "scripts"
    /\ Hovered.entry.key = n_test
    /\ Hovered.entry.value = c_jest

\* C5: with no documentation file, the hover over a script named in the
\* built-in table shows the built-in description and the document's command.
C5_DefaultDescription ==
    (/\ file = Absent
     /\ hover.kind = "hover"
     /\ hover.scriptName \in Keys(defaultDocs))
    => /\ hover.description = defaultDocs.val[hover.scriptName].val
       /\ hover.command = Scripts.val[hover.scriptName].val

(***************************************************************************)
(* Properties of the migration (Spec).                                     *)
(***************************************************************************)
\* What the claim says the file holds after the migration of the flat
\* object F: F under "package.json", and {} under every other package.json
\* of the workspace that is not in a dependency directory.
Migrated(F, ws) ==
    LET others == {p \in DOMAIN ws : p # p_root /\ p[1] # "node_modules"}
    IN  Json(ObjV([k \in {p_root} \cup others |->
                     IF k = p_root THEN F ELSE EmptyObj]))

\* C6: the load of a documentation file of legacy flat shape F leaves the
\* file equal to {"package.json": F} plus an empty entry for every other
\* package.json discovered outside the dependency directories.
C6_MigrationResult ==
    [][\A t \in Tasks :
          (pc[t] = "writeFile" /\ pc'[t] = "idle")
          => file' = Migrated(loc[t].rawDocs, workspace)]_vars

C6_Witness ==
    /\ writes = 1
    /\ DOMAIN workspace = {p_root, p_a, p_nm}
    /\ file = Json(ObjV((p_root :> FlatDocs) @@ (p_a :> EmptyObj)))

\* C7: what the migration wrote is never taken for the legacy shape: once a
\* migration has written the file, no load that reads it starts a migration.
C7_MigrationIdempotent ==
    [][writes > 0 =>
          \A t \in Tasks : pc[t] = "readFile" => pc'[t] # "findFiles"]_vars

C7_Witness ==
    /\ writes = 1
    /\ reads = 2
    /\ \A t \in Tasks : pc[t] = "idle"
    /\ cachedDocs = file.value
    /\ hover.kind = "hover"

\* C8: for one legacy-shaped file the migration writes the file exactly once,
\* whatever the interleaving of the hover requests.
C8_MigrationWritesOnce == writes <= 1

(***************************************************************************)
(* Properties of the update command (SpecUpdate).                          *)
(***************************************************************************)
\* The description a documentation file holds for script S of package P:
\* an own property of an own property, or undefined.
DescriptionIn(f, P, S) ==
    IF f.kind = "json" /\ P \in Keys(f.value) /\ S \in Keys(f.value.val[P])
    THEN f.value.val[P].val[S]
    ELSE Undefined

\* The scripts a package.json of the workspace declares.
Declared(P) ==
    IF workspace[P].kind = "json" THEN Get(workspace[P].value, n_scripts)
    ELSE Undefined

\* C9: when the update command regenerates the file, every script S declared
\* in a discovered package.json P keeps the description the existing file
\* holds for (P, S), and a script with no existing description gets the
\* template "Description for '<script>' script in <relativePath>: <command>".
C9_UpdatePreservesDescriptions ==
    [][(cmd.pc = "writeFile" /\ cmd'.pc = "showDocument") =>
          \A P \in FindPackageJsonFiles(workspace) :
             \A S \in Keys(Declared(P)) :
                IF DescriptionIn(file, P, S).type = "string"
                THEN DescriptionIn(file', P, S) = DescriptionIn(file, P, S)
                ELSE DescriptionIn(file', P, S) =
                        StrV(Template(S, P, Declared(P).val[S]))]_vars

BadContent(f) ==
    \/ f.kind = "garbage"
    \/ f.kind = "json" /\ ~(Truthy(f.value) /\ f.value.type = "object")

\* A step in which the load of request t returns.
LoadReturns(t) ==
    pc[t] \in {"readFile", "findDocs", "readDocs", "writeFile"} /\ pc'[t] = "idle"

\* C12: whenever a load of the documentation file fails (content that is not
\* valid JSON or has an invalid shape), the cache is empty when the load
\* returns.
C12_FailedLoadEmptiesCache ==
    [][\A t \in Tasks :
          (LoadReturns(t) /\ BadContent(file)) => cachedDocs' = NullV]_vars

\* C12 as amended: the nested provider leaves the cache empty when the file
\* is missing, is not valid JSON or is no object; the flat provider caches
\* its built-in defaults when the file is missing or is not valid JSON.
C12_FailedLoadByProvider ==
    [][\A t \in Tasks :
          (LoadReturns(t) /\ (BadContent(file) \/ file.kind = "absent")) =>
             IF variant = "nested" THEN cachedDocs' = NullV
             ELSE file.kind # "json" => cachedDocs' = defaultDocs]_vars

\* The nested provider after two failed loads of a file that is not JSON:
\* the second request read the file again.
C12_Witness ==
    /\ variant = "nested"
    /\ file = Garbage
    /\ reads = 2
    /\ \A t \in Tasks : pc[t] = "idle"
    /\ hover.kind = "hover"
    /\ cachedDocs = NullV

(***************************************************************************)
(* Properties of the settings (SpecSettings).                              *)
(***************************************************************************)
\* C13: the setting enabled gates the registration: activation registers the
\* hover provider when packageScriptsHover.enabled is true and only then.
C13_EnabledGatesRegistration ==
    [][(~active /\ active') => ((hoverProvider' # NoRegistration) <=> config.enabled)]_vars

\* The description a documentation file holds for script S of package P, in
\* the nested shape or in the flat one, or undefined.
HeldDescription(f, P, S) ==
    IF DescriptionIn(f, P, S).type = "string" THEN DescriptionIn(f, P, S)
    ELSE IF f.kind = "json" /\ S \in Keys(f.value) /\ f.value.val[S].type = "string"
    THEN f.value.val[S]
    ELSE Undefined

\* C14: when the setting customDocsPath names another path, a load takes the
\* descriptions from the file at that path and not from
\* .vscode/script-docs.json; the default path is used only when the setting
\* is unset.
C14_CustomDocsPathIsRead ==
    [][\A t \in Tasks :
          (LoadReturns(t) /\ hover'.kind = "hover") =>
             LET unset == config.customDocsPath = Undefined
                 named == IF unset THEN file ELSE customFile
                 other == IF unset THEN customFile ELSE file
                 d == HeldDescription(named, document.path, hover'.scriptName)
                 o == HeldDescription(other, document.path, hover'.scriptName)
             IN  /\ d.type = "string" => hover'.description = d.val
                 /\ (d.type # "string" /\ o.type = "string")
                       => hover'.description # o.val]_vars

(***************************************************************************)
(* More properties of the update command (SpecUpdate).                     *)
(***************************************************************************)
\* The files the scan discovers whose content cannot be parsed.
Failing == {F \in FindPackageJsonFiles(workspace) : workspace[F].kind # "json"}

\* The entry the written file has for a path, or undefined.
EntryIn(f, P) ==
    IF f.kind = "json" /\ P \in Keys(f.value) THEN f.value.val[P] ELSE Undefined

\* File P parses, and processing it alone raises an error in the command.
ThrowsAlone(P) ==
    /\ workspace[P].kind = "json"
    /\ cmd.existingDocs.type = "null"
    /\ ~Truthy(Declared(P)) \/ Keys(Declared(P)) # {}

\* C15: a package.json that cannot be read or parsed does not end the scan:
\* the file is written, with the failing file's entry its prior documentation
\* if the existing file had one and an error marker otherwise, and with every
\* other discovered file's entry what processing that file alone gives.
C15_FailureIsIsolated ==
    [][/\ (cmd.pc = "writeFile" /\ cmd'.pc = "showDocument") =>
            /\ \A F \in Failing :
                  IF F \in Keys(cmd.existingDocs)
                  THEN EntryIn(file', F) = StringifyInner(cmd.existingDocs.val[F])
                  ELSE <<"__error__">> \in Keys(EntryIn(file', F))
            /\ \A P \in FindPackageJsonFiles(workspace) \ Failing :
                  EntryIn(file', P) =
                     StringifyInner(Documented(cmd.existingDocs, EmptyObj, P,
                                               workspace[P].value))
       /\ (cmd.pc = "readPackageJson" /\ cmd'.pc = "idle" /\ Failing # {}) =>
            \E P \in FindPackageJsonFiles(workspace) : ThrowsAlone(P)]_vars

\* A step in which an invocation of the update command ends.
Ends == cmd'.pc = "idle" /\ (cmd.pc # "idle" \/ runs' # runs)

\* The message is the error message of the command's outer catch.
IsError(m) == Len(m) > 0 /\ m[1] = "Failed to update script-docs.json: "

\* C16: with no workspace folder, or with no package.json found in the
\* workspace, the invocation ends with an error message, and the
\* documentation file, the registration and the cache are left as they were.
C16_NothingToScanIsAnError ==
    [][(workspaceFolders = 0 \/ FindPackageJsonFiles(workspace) = {}) =>
          /\ file' = file /\ UNCHANGED <<hoverProvider, registrations>>
          /\ cachedDocs' = cachedDocs
          /\ Ends => IsError(message')]_vars

\* C16 as amended: the error is for no workspace folder, and for no
\* package.json found when no documentation file could be read either; when
\* no package.json is found and the documentation file was read, the command
\* says that the file is kept and writes its content back.
C16_NothingToScan ==
    [][(workspaceFolders = 0 \/ FindPackageJsonFiles(workspace) = {}) =>
          /\ UNCHANGED <<hoverProvider, registrations>>
          /\ IF workspaceFolders = 0 \/ file.kind # "json"
             THEN /\ file' = file
                  /\ cachedDocs' = cachedDocs
                  /\ Ends => IsError(message')
             ELSE /\ file' = Stringify(file.value)
                  /\ Ends => message' = <<"No package.json files found in workspace, but existing script-docs.json will be kept.">>]_vars

\* The command has ended with its error for a workspace folder without any
\* package.json and without a documentation file.
C16_Witness ==
    /\ workspaceFolders = 1
    /\ FindPackageJsonFiles(workspace) = {}
    /\ DOMAIN workspace # {}
    /\ file = Absent
    /\ runs = 1
    /\ cmd.pc = "idle"
    /\ IsError(message)

\* The package.json files the scan discovers that parse and declare no
\* scripts.
WithoutScripts ==
    {P \in FindPackageJsonFiles(workspace) :
        workspace[P].kind = "json" /\ n_scripts \notin Keys(workspace[P].value)}

\* C17: when the update command regenerates the file, a discovered
\* package.json that declares no scripts keeps exactly the entry the existing
\* file has for it, and gets an empty entry if the existing file has none.
C17_NoScriptsKeepsEntry ==
    [][(cmd.pc = "writeFile" /\ cmd'.pc = "showDocument") =>
          \A P \in WithoutScripts :
             EntryIn(file', P) =
                IF EntryIn(file, P) # Undefined THEN EntryIn(file, P)
                ELSE EmptyObj]_vars

\* The file was regenerated for a package.json without scripts that had
\* documentation, and the documentation is still there.
C17_Witness ==
    /\ cmd.pc = "showDocument"
    /\ p_root \in WithoutScripts
    /\ EntryIn(file, p_root) = FlatTestDocs

(***************************************************************************)
(* More properties of loadCustomDocs (Spec).                               *)
(***************************************************************************)
\* script name -> description
ValidFlat(v) ==
    v.type = "object" /\ \A k \in Keys(v) : v.val[k].type = "string"

\* relative path -> (script name -> description)
ValidNested(v) ==
    v.type = "object" /\ \A k \in Keys(v) : ValidFlat(v.val[k])

\* C18: a documentation file is accepted only if it is a valid flat mapping
\* or a valid nested mapping; with content of any other shape the load is
\* an error and nothing of the content gets into the cache.
C18_OnlyValidShapesAreCached ==
    [][\A t \in Tasks :
          (LoadReturns(t) /\ file.kind = "json"
              /\ ~ValidFlat(file.value) /\ ~ValidNested(file.value))
          => cachedDocs' \in {NullV, defaultDocs}]_vars

\* C18 as amended, for the nested provider: the content is accepted exactly
\* if it is an object and no array, whatever its values are, and then the
\* cache holds what the file holds when the load returns; an array, a
\* scalar or null makes the load an error and leaves the cache empty.
C18_ObjectsAreCached ==
    [][\A t \in Tasks :
          (variant = "nested" /\ LoadReturns(t) /\ file.kind = "json") =>
             IF Truthy(file.value) /\ file.value.type = "object"
             THEN cachedDocs' = file'.value
             ELSE cachedDocs' = NullV]_vars

\* The nested provider has cached an object whose value for package.json is
\* a string, and answered a hover from it.
C18_Witness ==
    /\ variant = "nested"
    /\ file = Json(MisshapenDocs)
    /\ cachedDocs = MisshapenDocs
    /\ hover.kind = "hover"
    /\ \A t \in Tasks : pc[t] = "idle"

(***************************************************************************)
(* Reads of the documentation file between invalidations (SpecReload).     *)
(***************************************************************************)
\* C19: with hover requests resolved one after another, the documentation
\* file is read at most once between two consecutive invalidations of the
\* cache, also when the file is absent: the reads never outnumber the
\* invalidations by more than the first load.
C19_ReadOncePerInvalidation == reads <= reloads + clears + 1

\* The documentation file holds a JSON object.
ObjectContent(f) ==
    f.kind = "json" /\ Truthy(f.value) /\ f.value.type = "object"

\* C19 as amended: the flat provider reads the file at most once between two
\* invalidations, whatever the file holds; the nested provider reads only
\* while the cache is empty, a load of an object leaves the cache filled,
\* and only an invalidation empties a filled cache.  A failed load of the
\* nested provider leaves the cache empty, and the next request reads again.
C19_ReadOncePerSuccessfulLoad ==
    [][/\ variant = "legacy" => reads' <= reloads' + clears' + 1
       /\ variant = "nested" =>
            /\ reads' # reads => cachedDocs = NullV
            /\ \A t \in Tasks :
                  (LoadReturns(t) /\ ObjectContent(file)) => Truthy(cachedDocs')
            /\ (Truthy(cachedDocs) /\ ~Truthy(cachedDocs'))
                  => (reloads' # reloads \/ clears' # clears)]_vars

\* The nested provider loaded an object, the reload command cleared the
\* cache, and the next request read the file a second time and cached it.
C19_Witness ==
    /\ variant = "nested"
    /\ ObjectContent(file)
    /\ reads = 2
    /\ reloads = 1
    /\ clears = 0
    /\ pc[1] = "idle"
    /\ hover.kind = "hover"
    /\ Truthy(cachedDocs)

(***************************************************************************)
(* Loads under way when the cache is cleared (SpecReload).                 *)
(***************************************************************************)
\* C20: a load that was suspended at a file-system call while the cache was
\* cleared does not store what it read before the clear: when a load
\* returns with rawDocs read and the cache filled, no invalidation has run
\* since rawDocs was read.
C20_NoStoreOfPreClearRead ==
    [][\A t \in Tasks :
          (LoadReturns(t) /\ loc[t].rawDocs # Undefined /\ cachedDocs' # NullV)
             => loc[t].readAt = reloads + clears]_vars

(***************************************************************************)
(* Registration of the hover provider (SpecLifecycle).                     *)
(***************************************************************************)
\* At most one registration is live, and hoverProvider holds it exactly
\* when there is one.
OneRegistration ==
    /\ Cardinality(registrations) <= 1
    /\ hoverProvider # NoRegistration <=> registrations # {}
    /\ hoverProvider # NoRegistration => hoverProvider \in registrations

EnableMessages ==
    {<<"Package Scripts Hover is now enabled">>,
     <<"Package Scripts Hover is already enabled">>}

DisableMessages ==
    {<<"Package Scripts Hover is now disabled">>,
     <<"Package Scripts Hover is already disabled">>}

\* C21: after activate and any sequence of enable and disable commands at
\* most one hover-provider registration is live, and hoverProvider is
\* defined exactly when one is; enable while enabled and disable while
\* disabled change neither the registrations nor the variable; and after
\* deactivate no registration is live.
C21_OneLiveRegistration ==
    [][/\ OneRegistration /\ OneRegistration'
       /\ (active /\ active' /\ message' \in EnableMessages
              /\ hoverProvider # NoRegistration)
            => UNCHANGED <<registrations, hoverProvider>>
       /\ (active /\ active' /\ message' \in DisableMessages
              /\ hoverProvider = NoRegistration)
            => UNCHANGED <<registrations, hoverProvider>>
       /\ deactivated' => registrations' = {}]_vars

\* The enable command has run while the provider was registered: one
\* registration is live.
C21_Witness ==
    /\ active
    /\ message = <<"Package Scripts Hover is already enabled">>
    /\ registrations = {1}
    /\ hoverProvider = 1

(***************************************************************************)
(* The debounce timer and deactivation (SpecLifecycle).                    *)
(***************************************************************************)
\* C24: after deactivate the cache is not cleared and no notification is
\* shown, neither by the reload command nor by the callback of a debounce
\* timer that was pending when the extension was deactivated.
C24_NoClearAfterDeactivate ==
    [][deactivated =>
          /\ clears' = clears
          /\ reloads' = reloads
          /\ message' = message]_vars

(***************************************************************************)
(* What the update command keeps of the file (SpecUpdate).                 *)
(***************************************************************************)
\* A step in which the update command writes the documentation file.
Writes ==
    /\ cmd.pc \in {"writeFile", "keepFile"}
    /\ cmd'.pc \in {"showDocument", "showKept"}

\* C22: a successful run of the update command removes no description:
\* every description the documentation file holds for a package path P and
\* a script name S before the write is held, unchanged, by the file after
\* it, whatever the package.json files of the workspace are.
C22_UpdateRemovesNoDescription ==
    [][Writes =>
          \A P \in Keys(file.value) :
             \A S \in Keys(file.value.val[P]) :
                DescriptionIn(file, P, S).type = "string"
                   => DescriptionIn(file', P, S) = DescriptionIn(file, P, S)]_vars

\* C23: the update command is idempotent: when it runs twice in a row with
\* no change to the package.json files or to the documentation file in
\* between, the second run writes the mapping the first run wrote, which is
\* the content of the file the second run finds.
C23_UpdateIsIdempotent ==
    [][(Writes /\ runs >= 2) => file' = file]_vars

\* The second run in a row has written the file, with a package.json that
\* declares scripts in the workspace.
C23_Witness ==
    /\ runs = 2
    /\ cmd.pc = "showDocument"
    /\ file.kind = "json"
    /\ \E P \in FindPackageJsonFiles(workspace) :
          /\ Keys(Declared(P)) # {}
          /\ \A S \in Keys(Declared(P)) \ ObjectPrototypeKeys :
                DescriptionIn(file, P, S).type = "string"

====
